---------------------------- MODULE Spec2Model ----------------------------
(***************************************************************************)
(* A model of the benchmark-log plotting script src/archive/a.py.          *)
(*                                                                         *)
(* The script defines parse_benchmark_log(file_path), calls it on          *)
(* 'column-major1.txt', prints the three extracted lists and their         *)
(* lengths, calls it again on 'column-major-1.txt', and draws both         *)
(* rate-vs-size curves in one log-log chart.                               *)
(*                                                                         *)
(* A file text is a sequence of one-character strings.  A floating-point   *)
(* value is a double, written as a record of decimal digits (see the       *)
(* conversions below): [kind |-> "dec", d |-> <<6, 7>>, x |-> -1] is the   *)
(* double nearest to 67 * 10^-1, the one Python prints as 6.7.  Each       *)
(* double has one record, so two records are equal exactly when the floats *)
(* are.                                                                    *)
(***************************************************************************)
EXTENDS Integers, Sequences, FiniteSets

(***************************************************************************)
(* Bounds of the model.                                                    *)
(***************************************************************************)
\* Longest log file, in lines, the whole-script specification reads.
MaxLines == 2
\* Longest file text, in fragments, the parser-only specification reads.
MaxFrags == 4

(***************************************************************************)
(* Characters and the three patterns (a.py lines 9-11).  A character is a  *)
(* one-character string; a character outside ASCII is written by its code *)
(* point, "U+0663" for ARABIC-INDIC DIGIT THREE.                           *)
(***************************************************************************)
\* The ten ASCII digits.
AsciiDigits == {"0", "1", "2", "3", "4", "5", "6", "7", "8", "9"}

\* The decimal digits outside ASCII (Unicode category Nd, Unicode 14.0), by
\* value: UnicodeDigits[v + 1] holds the characters whose decimal value is v.
UnicodeDigits ==
    <<
      {"U+0660", "U+06F0", "U+07C0", "U+0966", "U+09E6", "U+0A66", "U+0AE6",
       "U+0B66", "U+0BE6", "U+0C66", "U+0CE6", "U+0D66", "U+0DE6", "U+0E50",
       "U+0ED0", "U+0F20", "U+1040", "U+1090", "U+17E0", "U+1810", "U+1946",
       "U+19D0", "U+1A80", "U+1A90", "U+1B50", "U+1BB0", "U+1C40", "U+1C50",
       "U+A620", "U+A8D0", "U+A900", "U+A9D0", "U+A9F0", "U+AA50", "U+ABF0",
       "U+FF10", "U+104A0", "U+10D30", "U+11066", "U+110F0", "U+11136",
       "U+111D0", "U+112F0", "U+11450", "U+114D0", "U+11650", "U+116C0",
       "U+11730", "U+118E0", "U+11950", "U+11C50", "U+11D50", "U+11DA0",
       "U+16A60", "U+16AC0", "U+16B50", "U+1D7CE", "U+1D7D8", "U+1D7E2",
       "U+1D7EC", "U+1D7F6", "U+1E140", "U+1E2F0", "U+1E950", "U+1FBF0"},
      {"U+0661", "U+06F1", "U+07C1", "U+0967", "U+09E7", "U+0A67", "U+0AE7",
       "U+0B67", "U+0BE7", "U+0C67", "U+0CE7", "U+0D67", "U+0DE7", "U+0E51",
       "U+0ED1", "U+0F21", "U+1041", "U+1091", "U+17E1", "U+1811", "U+1947",
       "U+19D1", "U+1A81", "U+1A91", "U+1B51", "U+1BB1", "U+1C41", "U+1C51",
       "U+A621", "U+A8D1", "U+A901", "U+A9D1", "U+A9F1", "U+AA51", "U+ABF1",
       "U+FF11", "U+104A1", "U+10D31", "U+11067", "U+110F1", "U+11137",
       "U+111D1", "U+112F1", "U+11451", "U+114D1", "U+11651", "U+116C1",
       "U+11731", "U+118E1", "U+11951", "U+11C51", "U+11D51", "U+11DA1",
       "U+16A61", "U+16AC1", "U+16B51", "U+1D7CF", "U+1D7D9", "U+1D7E3",
       "U+1D7ED", "U+1D7F7", "U+1E141", "U+1E2F1", "U+1E951", "U+1FBF1"},
      {"U+0662", "U+06F2", "U+07C2", "U+0968", "U+09E8", "U+0A68", "U+0AE8",
       "U+0B68", "U+0BE8", "U+0C68", "U+0CE8", "U+0D68", "U+0DE8", "U+0E52",
       "U+0ED2", "U+0F22", "U+1042", "U+1092", "U+17E2", "U+1812", "U+1948",
       "U+19D2", "U+1A82", "U+1A92", "U+1B52", "U+1BB2", "U+1C42", "U+1C52",
       "U+A622", "U+A8D2", "U+A902", "U+A9D2", "U+A9F2", "U+AA52", "U+ABF2",
       "U+FF12", "U+104A2", "U+10D32", "U+11068", "U+110F2", "U+11138",
       "U+111D2", "U+112F2", "U+11452", "U+114D2", "U+11652", "U+116C2",
       "U+11732", "U+118E2", "U+11952", "U+11C52", "U+11D52", "U+11DA2",
       "U+16A62", "U+16AC2", "U+16B52", "U+1D7D0", "U+1D7DA", "U+1D7E4",
       "U+1D7EE", "U+1D7F8", "U+1E142", "U+1E2F2", "U+1E952", "U+1FBF2"},
      {"U+0663", "U+06F3", "U+07C3", "U+0969", "U+09E9", "U+0A69", "U+0AE9",
       "U+0B69", "U+0BE9", "U+0C69", "U+0CE9", "U+0D69", "U+0DE9", "U+0E53",
       "U+0ED3", "U+0F23", "U+1043", "U+1093", "U+17E3", "U+1813", "U+1949",
       "U+19D3", "U+1A83", "U+1A93", "U+1B53", "U+1BB3", "U+1C43", "U+1C53",
       "U+A623", "U+A8D3", "U+A903", "U+A9D3", "U+A9F3", "U+AA53", "U+ABF3",
       "U+FF13", "U+104A3", "U+10D33", "U+11069", "U+110F3", "U+11139",
       "U+111D3", "U+112F3", "U+11453", "U+114D3", "U+11653", "U+116C3",
       "U+11733", "U+118E3", "U+11953", "U+11C53", "U+11D53", "U+11DA3",
       "U+16A63", "U+16AC3", "U+16B53", "U+1D7D1", "U+1D7DB", "U+1D7E5",
       "U+1D7EF", "U+1D7F9", "U+1E143", "U+1E2F3", "U+1E953", "U+1FBF3"},
      {"U+0664", "U+06F4", "U+07C4", "U+096A", "U+09EA", "U+0A6A", "U+0AEA",
       "U+0B6A", "U+0BEA", "U+0C6A", "U+0CEA", "U+0D6A", "U+0DEA", "U+0E54",
       "U+0ED4", "U+0F24", "U+1044", "U+1094", "U+17E4", "U+1814", "U+194A",
       "U+19D4", "U+1A84", "U+1A94", "U+1B54", "U+1BB4", "U+1C44", "U+1C54",
       "U+A624", "U+A8D4", "U+A904", "U+A9D4", "U+A9F4", "U+AA54", "U+ABF4",
       "U+FF14", "U+104A4", "U+10D34", "U+1106A", "U+110F4", "U+1113A",
       "U+111D4", "U+112F4", "U+11454", "U+114D4", "U+11654", "U+116C4",
       "U+11734", "U+118E4", "U+11954", "U+11C54", "U+11D54", "U+11DA4",
       "U+16A64", "U+16AC4", "U+16B54", "U+1D7D2", "U+1D7DC", "U+1D7E6",
       "U+1D7F0", "U+1D7FA", "U+1E144", "U+1E2F4", "U+1E954", "U+1FBF4"},
      {"U+0665", "U+06F5", "U+07C5", "U+096B", "U+09EB", "U+0A6B", "U+0AEB",
       "U+0B6B", "U+0BEB", "U+0C6B", "U+0CEB", "U+0D6B", "U+0DEB", "U+0E55",
       "U+0ED5", "U+0F25", "U+1045", "U+1095", "U+17E5", "U+1815", "U+194B",
       "U+19D5", "U+1A85", "U+1A95", "U+1B55", "U+1BB5", "U+1C45", "U+1C55",
       "U+A625", "U+A8D5", "U+A905", "U+A9D5", "U+A9F5", "U+AA55", "U+ABF5",
       "U+FF15", "U+104A5", "U+10D35", "U+1106B", "U+110F5", "U+1113B",
       "U+111D5", "U+112F5", "U+11455", "U+114D5", "U+11655", "U+116C5",
       "U+11735", "U+118E5", "U+11955", "U+11C55", "U+11D55", "U+11DA5",
       "U+16A65", "U+16AC5", "U+16B55", "U+1D7D3", "U+1D7DD", "U+1D7E7",
       "U+1D7F1", "U+1D7FB", "U+1E145", "U+1E2F5", "U+1E955", "U+1FBF5"},
      {"U+0666", "U+06F6", "U+07C6", "U+096C", "U+09EC", "U+0A6C", "U+0AEC",
       "U+0B6C", "U+0BEC", "U+0C6C", "U+0CEC", "U+0D6C", "U+0DEC", "U+0E56",
       "U+0ED6", "U+0F26", "U+1046", "U+1096", "U+17E6", "U+1816", "U+194C",
       "U+19D6", "U+1A86", "U+1A96", "U+1B56", "U+1BB6", "U+1C46", "U+1C56",
       "U+A626", "U+A8D6", "U+A906", "U+A9D6", "U+A9F6", "U+AA56", "U+ABF6",
       "U+FF16", "U+104A6", "U+10D36", "U+1106C", "U+110F6", "U+1113C",
       "U+111D6", "U+112F6", "U+11456", "U+114D6", "U+11656", "U+116C6",
       "U+11736", "U+118E6", "U+11956", "U+11C56", "U+11D56", "U+11DA6",
       "U+16A66", "U+16AC6", "U+16B56", "U+1D7D4", "U+1D7DE", "U+1D7E8",
       "U+1D7F2", "U+1D7FC", "U+1E146", "U+1E2F6", "U+1E956", "U+1FBF6"},
      {"U+0667", "U+06F7", "U+07C7", "U+096D", "U+09ED", "U+0A6D", "U+0AED",
       "U+0B6D", "U+0BED", "U+0C6D", "U+0CED", "U+0D6D", "U+0DED", "U+0E57",
       "U+0ED7", "U+0F27", "U+1047", "U+1097", "U+17E7", "U+1817", "U+194D",
       "U+19D7", "U+1A87", "U+1A97", "U+1B57", "U+1BB7", "U+1C47", "U+1C57",
       "U+A627", "U+A8D7", "U+A907", "U+A9D7", "U+A9F7", "U+AA57", "U+ABF7",
       "U+FF17", "U+104A7", "U+10D37", "U+1106D", "U+110F7", "U+1113D",
       "U+111D7", "U+112F7", "U+11457", "U+114D7", "U+11657", "U+116C7",
       "U+11737", "U+118E7", "U+11957", "U+11C57", "U+11D57", "U+11DA7",
       "U+16A67", "U+16AC7", "U+16B57", "U+1D7D5", "U+1D7DF", "U+1D7E9",
       "U+1D7F3", "U+1D7FD", "U+1E147", "U+1E2F7", "U+1E957", "U+1FBF7"},
      {"U+0668", "U+06F8", "U+07C8", "U+096E", "U+09EE", "U+0A6E", "U+0AEE",
       "U+0B6E", "U+0BEE", "U+0C6E", "U+0CEE", "U+0D6E", "U+0DEE", "U+0E58",
       "U+0ED8", "U+0F28", "U+1048", "U+1098", "U+17E8", "U+1818", "U+194E",
       "U+19D8", "U+1A88", "U+1A98", "U+1B58", "U+1BB8", "U+1C48", "U+1C58",
       "U+A628", "U+A8D8", "U+A908", "U+A9D8", "U+A9F8", "U+AA58", "U+ABF8",
       "U+FF18", "U+104A8", "U+10D38", "U+1106E", "U+110F8", "U+1113E",
       "U+111D8", "U+112F8", "U+11458", "U+114D8", "U+11658", "U+116C8",
       "U+11738", "U+118E8", "U+11958", "U+11C58", "U+11D58", "U+11DA8",
       "U+16A68", "U+16AC8", "U+16B58", "U+1D7D6", "U+1D7E0", "U+1D7EA",
       "U+1D7F4", "U+1D7FE", "U+1E148", "U+1E2F8", "U+1E958", "U+1FBF8"},
      {"U+0669", "U+06F9", "U+07C9", "U+096F", "U+09EF", "U+0A6F", "U+0AEF",
       "U+0B6F", "U+0BEF", "U+0C6F", "U+0CEF", "U+0D6F", "U+0DEF", "U+0E59",
       "U+0ED9", "U+0F29", "U+1049", "U+1099", "U+17E9", "U+1819", "U+194F",
       "U+19D9", "U+1A89", "U+1A99", "U+1B59", "U+1BB9", "U+1C49", "U+1C59",
       "U+A629", "U+A8D9", "U+A909", "U+A9D9", "U+A9F9", "U+AA59", "U+ABF9",
       "U+FF19", "U+104A9", "U+10D39", "U+1106F", "U+110F9", "U+1113F",
       "U+111D9", "U+112F9", "U+11459", "U+114D9", "U+11659", "U+116C9",
       "U+11739", "U+118E9", "U+11959", "U+11C59", "U+11D59", "U+11DA9",
       "U+16A69", "U+16AC9", "U+16B59", "U+1D7D7", "U+1D7E1", "U+1D7EB",
       "U+1D7F5", "U+1D7FF", "U+1E149", "U+1E2F9", "U+1E959", "U+1FBF9"}
    >>

\* \d of the patterns: the patterns are str patterns, for which \d matches
\* every Unicode decimal digit.
Digits == AsciiDigits \cup UNION {UnicodeDigits[v] : v \in 1..10}

\* [\d.] of the elapsed and rate patterns.
DigitsDot == Digits \cup {"."}

\* The decimal value of a digit character, as int() and float() read it.
DigitVal(c) ==
    CASE c = "0" -> 0 [] c = "1" -> 1 [] c = "2" -> 2 [] c = "3" -> 3
      [] c = "4" -> 4 [] c = "5" -> 5 [] c = "6" -> 6 [] c = "7" -> 7
      [] c = "8" -> 8 [] c = "9" -> 9
      [] OTHER -> (CHOOSE v \in 1..10 : c \in UnicodeDigits[v]) - 1

\* The mutant of SizePrefix: the literal mistyped with a colon, 'size:'.
SizePrefixColon == <<"s","i","z","e",":">>

\* The literal head of r'size=(\d+)'.
SizePrefix == <<"s","i","z","e","=">>

\* The literal head of r'elapsed: ([\d.]+)'.
ElapsedPrefix == <<"e","l","a","p","s","e","d",":"," ">>

\* The literal head of r'rate: ([\d.]+)'.
RatePrefix == <<"r","a","t","e",":"," ">>

(***************************************************************************)
(* re.findall(pattern, data) for a pattern of the shape                    *)
(* <literal>(<class>+): the regular-expression engine looks for the        *)
(* leftmost position at which the pattern matches; the group is the        *)
(* longest run of class characters after the literal (+ is greedy and      *)
(* nothing follows it), and the search resumes right after the match.      *)
(***************************************************************************)
\* Whether the literal `lit` stands in `data` at position i.
LiteralAt(lit, data, i) ==
    /\ i + Len(lit) - 1 <= Len(data)
    /\ \A k \in 1..Len(lit) : data[i + k - 1] = lit[k]

\* The least element of a non-empty set of numbers.
Least(S) == CHOOSE x \in S : \A y \in S : x <= y

\* The length of the longest run of `class` characters of `data` from i on:
\* the run ends before the first character from i on that is not of the class.
RunLen(class, data, i) ==
    LET stops == {j \in i..Len(data) : data[j] \notin class}
    IN  IF stops = {} THEN Len(data) + 1 - i ELSE Least(stops) - i

\* Whether the pattern matches at position i: the literal and a class character.
MatchAt(lit, class, data, i) ==
    /\ LiteralAt(lit, data, i)
    /\ i + Len(lit) <= Len(data)
    /\ data[i + Len(lit)] \in class

\* The search of findall from position i on: the groups of the matches found.
RECURSIVE Scan(_, _, _, _)
Scan(lit, class, data, i) ==
    LET starts == {j \in i..Len(data) : MatchAt(lit, class, data, j)}
    IN  IF starts = {} THEN <<>>
        ELSE LET from == Least(starts) + Len(lit)
                 n    == RunLen(class, data, from)
             IN  <<SubSeq(data, from, from + n - 1)>>
                     \o Scan(lit, class, data, from + n)

\* The mutant of FindAll: re.search in place of re.findall, the first match only.
FindFirst(lit, class, data) ==
    LET all == Scan(lit, class, data, 1)
    IN  IF all = <<>> THEN <<>> ELSE <<all[1]>>

\* The mutant of FindAll for the empty text: the fields taken by splitting the
\* text at the literal, which for an empty text is one empty field.
FindAllSplit(lit, class, data) ==
    IF data = <<>> THEN << <<>> >> ELSE Scan(lit, class, data, 1)

\* re.findall for <literal>(<class>+).
FindAll(lit, class, data) == Scan(lit, class, data, 1)

(***************************************************************************)
(* The conversions (a.py lines 14-16).  A conversion of a string that is   *)
(* no literal of the type raises ValueError; the predicates say which      *)
(* strings convert and the operators give the value of those that do.      *)
(***************************************************************************)
\* The value of a string of digits read in base `base`, left to right.
RECURSIVE DigitsValue(_, _)
DigitsValue(s, base) ==
    IF s = <<>> THEN 0
    ELSE DigitsValue(SubSeq(s, 1, Len(s) - 1), base) * base + DigitVal(s[Len(s)])

\* The longest string int() converts (sys.get_int_max_str_digits(), 4300
\* unless the interpreter is started with another limit).
MaxStrDigits == 4300

\* Whether int(s) succeeds on a string s: one digit or more, only digits, and
\* no more than MaxStrDigits of them, leading zeros counted.
IsIntLiteral(s) ==
    /\ s # <<>>
    /\ Len(s) <= MaxStrDigits
    /\ \A k \in 1..Len(s) : s[k] \in Digits

\* The mutant of PyInt: a leading zero selects base eight, as in C's strtol
\* with base 0.
PyIntOctal(s) ==
    IF Len(s) > 1 /\ DigitVal(s[1]) = 0 THEN DigitsValue(s, 8) ELSE DigitsValue(s, 10)

\* int(s): base ten, leading zeros allowed.
PyInt(s) == DigitsValue(s, 10)

(***************************************************************************)
(* float(s) is the double nearest to the decimal s writes, ties to the     *)
(* even significand, infinity from 2^1024 on.  A float is a record         *)
(* [kind, d, x] whose d is a sequence of decimal digits, most significant  *)
(* first:                                                                  *)
(*   kind = "dec"  the double nearest to d * 10^x, where d has no leading  *)
(*                 and no trailing zero and at most FloatDig digits and    *)
(*                 the decimal lies in the normal range; zero is d = <<>>, *)
(*                 x = 0.  Two such decimals never round to one double     *)
(*                 (FloatDig is sys.float_info.dig), so the decimal names  *)
(*                 the double;                                             *)
(*   kind = "bin"  the double d * 2^x, d odd, which no such decimal rounds *)
(*                 to;                                                     *)
(*   kind = "inf"  infinity, with d = <<>> and x = 0.                      *)
(* Each double has one record, so equal floats are equal records.          *)
(***************************************************************************)
\* sys.float_info.dig: decimals of that many significant digits survive the
\* round trip through a double.
FloatDig == 15

\* sys.float_info.min_10_exp: 10^Min10Exp is a normal double.
Min10Exp == -307

\* sys.float_info.max_10_exp: 10^Max10Exp is a finite double, 10^(Max10Exp+1)
\* is beyond the largest.
Max10Exp == 308

\* The exponent of the least subnormal double, 2^MinExp2.
MinExp2 == -1074

\* The exponent of the largest double, (2^53 - 1) * 2^MaxExp2.
MaxExp2 == 971

\* 2^52 and 2^53: a normal double's significand q has Two52 <= q < Two53.
Two52 == <<4,5,0,3,5,9,9,6,2,7,3,7,0,4,9,6>>
Two53 == <<9,0,0,7,1,9,9,2,5,4,7,4,0,9,9,2>>

\* The greatest element of a non-empty set of numbers.
Greatest(S) == CHOOSE x \in S : \A y \in S : y <= x

\* n zeros.
Zeros(n) == [j \in 1..n |-> 0]

\* A digit sequence without its leading zeros.
DropLead(d) == SubSeq(d, RunLen({0}, d, 1) + 1, Len(d))

\* A digit sequence without its trailing zeros.
DropTrail(d) ==
    LET nz == {j \in 1..Len(d) : d[j] # 0}
    IN  IF nz = {} THEN <<>> ELSE SubSeq(d, 1, Greatest(nz))

\* a < b for natural numbers written without leading zeros.
Less(a, b) ==
    \/ Len(a) < Len(b)
    \/ /\ Len(a) = Len(b)
       /\ \E j \in 1..Len(a) : a[j] < b[j] /\ \A h \in 1..(j - 1) : a[h] = b[h]

\* d + 1 for a natural number d.
Inc(d) ==
    LET nn == {j \in 1..Len(d) : d[j] # 9}
    IN  IF nn = {} THEN <<1>> \o Zeros(Len(d))
        ELSE LET p == Greatest(nn)
             IN  [j \in 1..Len(d) |-> IF j < p THEN d[j]
                                      ELSE IF j = p THEN d[j] + 1 ELSE 0]

\* 2 * d, one digit longer: a digit doubles and takes the carry of the digit
\* to its right, which carries when it is 5 or more.
Twice(d) ==
    LET src(j) == IF j = 0 \/ j > Len(d) THEN 0 ELSE d[j]
    IN  [j \in 1..(Len(d) + 1) |->
            (2 * src(j - 1) + (IF src(j) >= 5 THEN 1 ELSE 0)) % 10]

\* d / 2 by long division, for a d whose last digit is even: a digit takes ten
\* from the digit to its left when that one is odd.
Halved(d) ==
    [j \in 1..Len(d) |-> (d[j] + (IF j > 1 /\ d[j - 1] % 2 = 1 THEN 10 ELSE 0)) \div 2]

\* The number i.f * 2^x, integer digits i and fraction digits f, with the
\* zeros that do not count removed.
Num(i, f, x) == [i |-> DropLead(i), f |-> DropTrail(f), x |-> x]

\* Whether n.i.f is too large for a significand, 2^53 or more.
TooLarge(n) == ~Less(n.i, Two53)

\* Whether n.i.f is too small for a significand: below 2^52 with an exponent
\* above that of the subnormals.
TooSmall(n) == Less(n.i, Two52) /\ n.x > MinExp2

\* The number n.i.f * 2^n.x brought one step closer to a significand: halved
\* when too large, doubled when too small.
Step(n) ==
    LET all == n.i \o n.f
    IN  IF TooLarge(n)
        THEN LET h == Halved(all \o <<0>>)
             IN  Num(SubSeq(h, 1, Len(n.i)), SubSeq(h, Len(n.i) + 1, Len(h)), n.x + 1)
        ELSE IF TooSmall(n)
        THEN LET t == Twice(all)
             IN  Num(SubSeq(t, 1, Len(n.i) + 1), SubSeq(t, Len(n.i) + 2, Len(t)), n.x - 1)
        ELSE n

\* 2^lvl steps, or fewer when the number is a significand before.
RECURSIVE Steps(_, _)
Steps(n, lvl) ==
    IF ~TooLarge(n) /\ ~TooSmall(n) THEN n
    ELSE IF lvl = 0 THEN Step(n)
    ELSE Steps(Steps(n, lvl - 1), lvl - 1)

\* 2^StepLevels steps bring every number below 10^(Max10Exp + 1) to a
\* significand: at most 1074 doublings, at most 974 halvings.
StepLevels == 11

\* The fraction f against one half: -1 below, 0 equal, 1 above.
CmpHalf(f) ==
    IF f = <<>> \/ f[1] < 5 THEN -1
    ELSE IF f[1] > 5 \/ Len(f) > 1 THEN 1
    ELSE 0

\* The significand n.i.f rounded to an integer, ties to even.
Rounded(n) ==
    LET c == CmpHalf(n.f)
        odd == n.i # <<>> /\ n.i[Len(n.i)] % 2 = 1
    IN  IF c = 1 \/ (c = 0 /\ odd) THEN Inc(n.i) ELSE n.i

\* q * 2^x with the factors two of q moved into the exponent.
RECURSIVE OddPart(_, _)
OddPart(q, x) ==
    IF q[Len(q)] % 2 = 0 THEN OddPart(DropLead(Halved(q)), x + 1)
    ELSE [q |-> q, x |-> x]

\* Zero, infinity, and the double q * 2^x that is no short decimal.
FloatZero == [kind |-> "dec", d |-> <<>>, x |-> 0]
FloatInf  == [kind |-> "inf", d |-> <<>>, x |-> 0]
FloatBin(q, x) == LET o == OddPart(q, x) IN [kind |-> "bin", d |-> o.q, x |-> o.x]

\* The double nearest to the decimal i.f.
Nearest(i, f) ==
    LET n == Num(i, f, 0)
    IN  IF Len(n.i) > Max10Exp + 1 THEN FloatInf
        ELSE LET s == Steps(n, StepLevels)
                 q == Rounded(s)
             IN  IF q = <<>> THEN FloatZero
                 ELSE IF s.x > MaxExp2 \/ (s.x = MaxExp2 /\ q = Two53) THEN FloatInf
                 ELSE FloatBin(q, s.x)

\* The exponent of the leading digit of the non-zero decimal i.f.
LeadExp(i, f) ==
    LET n == Num(i, f, 0)
    IN  IF n.i # <<>> THEN Len(n.i) - 1 ELSE -(RunLen({0}, n.f, 1) + 1)

\* The float the decimal d * 10^x names, d without leading zero.
FloatDec(d, x) ==
    LET t == DropTrail(d)
    IN  [kind |-> "dec", d |-> t, x |-> x + Len(d) - Len(t)]

\* The integer and fraction digits of d * 10^x.
Digits10(d, x) ==
    IF x >= 0 THEN [i |-> d \o Zeros(x), f |-> <<>>]
    ELSE IF -x <= Len(d)
    THEN [i |-> SubSeq(d, 1, Len(d) + x), f |-> SubSeq(d, Len(d) + x + 1, Len(d))]
    ELSE [i |-> <<>>, f |-> Zeros(-x - Len(d)) \o d]

\* Whether the decimal d * 10^x, d without leading zero, lies in the range
\* where a short decimal names its double: from 10^Min10Exp up to, not
\* including, 10^Max10Exp.
InRange(d, x) ==
    /\ x + Len(d) - 1 >= Min10Exp
    /\ x + Len(d) - 1 < Max10Exp

\* Whether the decimal d * 10^x is a short decimal in range that rounds to
\* the double v.
Names(d, x, v) ==
    /\ InRange(d, x)
    /\ LET n == Digits10(d, x) IN Nearest(n.i, n.f) = v

\* The float of the decimal i.f: the double nearest to it, named by the short
\* decimal in range that rounds to it when there is one, and written in
\* binary otherwise.  A decimal of at most FloatDig digits in range names its
\* own double; the short decimal that names the double of a longer one is one
\* of the two of FloatDig digits next to it, lo below and hi above.
FloatOf(i, f) ==
    LET sig == DropTrail(DropLead(i \o f))
        e   == LeadExp(i, f)
        v   == Nearest(i, f)
        lo  == SubSeq(sig, 1, FloatDig)
        hi  == Inc(lo)
        x   == e - FloatDig + 1
    IN  IF sig = <<>> THEN FloatZero
        ELSE IF Len(sig) <= FloatDig
        THEN IF InRange(sig, e - Len(sig) + 1)
             THEN FloatDec(sig, e - Len(sig) + 1) ELSE v
        ELSE IF Names(lo, x, v) THEN FloatDec(lo, x)
        ELSE IF Names(hi, x, v) THEN FloatDec(hi, x)
        ELSE v

\* How float() splits a string: ni digits, an optional dot, nf digits.
FloatParts(s) ==
    LET ni == RunLen(Digits, s, 1)
        hasDot == ni + 1 <= Len(s) /\ s[ni + 1] = "."
        nf == IF hasDot THEN RunLen(Digits, s, ni + 2) ELSE 0
    IN  [ni |-> ni, nf |-> nf, used |-> ni + (IF hasDot THEN 1 ELSE 0) + nf]

\* The mutant of IsFloatLiteral: a lenient reader that stops at the first
\* character it cannot use (as C's atof does) instead of rejecting the string.
IsFloatLiteralLenient(s) == TRUE

\* Whether float(s) succeeds on a string s of digits and dots: at least one
\* digit in all, and nothing left over after the number.
IsFloatLiteral(s) ==
    LET p == FloatParts(s) IN p.ni + p.nf > 0 /\ p.used = Len(s)

\* The values of the digit characters s[a..b].
DigitVals(s, a, b) == [j \in 1..(b - a + 1) |-> DigitVal(s[a + j - 1])]

\* float(s): the double nearest to the number the digits around the dot write.
PyFloat(s) ==
    LET p == FloatParts(s)
    IN  FloatOf(DigitVals(s, 1, p.ni), DigitVals(s, p.ni + 2, p.ni + 1 + p.nf))

\* list(map(int, xs)) when every element converts.
MapInt(xs) == [k \in 1..Len(xs) |-> PyInt(xs[k])]

\* list(map(float, xs)) when every element converts.
MapFloat(xs) == [k \in 1..Len(xs) |-> PyFloat(xs[k])]

(***************************************************************************)
(* The inputs: the two log files the script names (a.py lines 21 and 35).  *)
(***************************************************************************)
\* 'column-major1.txt', the first log file.
File1 == "column-major1.txt"

\* 'column-major-1.txt', the second log file.
File2 == "column-major-1.txt"

\* The sequences of at most n elements of S.
SeqsUpTo(S, n) == UNION {[1..k -> S] : k \in 0..n}

\* The concatenation of a sequence of texts.
RECURSIVE Flatten(_)
Flatten(ts) == IF ts = <<>> THEN <<>> ELSE ts[1] \o Flatten(Tail(ts))

\* A complete record line: 'size=10 elapsed: 1.5 rate: 6.7'.
LineFull == <<"s","i","z","e","=","1","0"," ","e","l","a","p","s","e","d",":"," ","1",".","5"," ","r","a","t","e",":"," ","6",".","7","\n">>

\* A second complete record line: 'size=20 elapsed: 3.0 rate: 6.6'.
LineFull2 == <<"s","i","z","e","=","2","0"," ","e","l","a","p","s","e","d",":"," ","3",".","0"," ","r","a","t","e",":"," ","6",".","6","\n">>

\* A line without an elapsed field: 'size=20 rate: 6.6'.
LineNoElapsed == <<"s","i","z","e","=","2","0"," ","r","a","t","e",":"," ","6",".","6","\n">>

\* A line without a rate field: 'size=007 elapsed: 3.0'.
LineNoRate == <<"s","i","z","e","=","0","0","7"," ","e","l","a","p","s","e","d",":"," ","3",".","0","\n">>

\* A line whose elapsed text is no number: 'elapsed: 1.2.3'.
LineBadElapsed == <<"e","l","a","p","s","e","d",":"," ","1",".","2",".","3","\n">>

\* The lines a log file of the whole-script specification is made of.
LineKinds == {LineFull, LineFull2, LineNoElapsed, LineNoRate, LineBadElapsed}

\* The character c, n times.
Repeat(c, n) == [k \in 1..n |-> c]

\* A size of one digit more than int() converts: 'size=' and 4301 times '1'.
LongSizeLog == <<"s","i","z","e","=">> \o Repeat("1", MaxStrDigits + 1)

\* The size 7 behind as many leading zeros as int() converts digits:
\* 'size=', 4300 times '0', and '7'.
LongZerosLog == <<"s","i","z","e","=">> \o Repeat("0", MaxStrDigits) \o <<"7">>

\* The file texts of the whole-script specification: the logs of at most
\* MaxLines lines, and the log of the size int() does not convert.
ScriptTexts ==
    {Flatten(ls) : ls \in SeqsUpTo(LineKinds, MaxLines)} \cup {LongZerosLog}

\* The two-line log of the parser's worked example.
ExampleLog == LineFull \o LineFull2

\* A log with a rate in scientific form and one in plain decimal form:
\* 'rate: 1.5e3' and 'rate: 6.7'.
ScientificLog == <<"r","a","t","e",":"," ","1",".","5","e","3","\n","r","a","t","e",":"," ","6",".","7","\n">>

\* Two rates that differ by less than a double tells apart:
\* 'rate: 0.10000000000000000001 rate: 0.1'.
CloseRatesLog ==
    <<"r","a","t","e",":"," ","0",".","1">> \o Repeat("0", 18) \o <<"1">>
        \o <<" ","r","a","t","e",":"," ","0",".","1","\n">>

\* A rate below half the least double, and zero: 'rate: 0.' with 323 zeros and
\* a '1' after the dot, then 'rate: 0.0'.
TinyRateLog ==
    <<"r","a","t","e",":"," ","0",".">> \o Repeat("0", 323) \o <<"1">>
        \o <<" ","r","a","t","e",":"," ","0",".","0","\n">>

\* Two rates at the lower end of the range of short decimals that one double
\* is nearest to: 'rate: 0.' with 306 zeros and a '1', and 'rate: 0.' with 307
\* zeros and twenty times '9'.
LowRatesLog ==
    <<"r","a","t","e",":"," ","0",".">> \o Repeat("0", 306) \o <<"1">>
        \o <<" ","r","a","t","e",":"," ","0",".">> \o Repeat("0", 307)
        \o Repeat("9", 20) \o <<"\n">>

\* Two rates at the upper end of that range that one double is nearest to:
\* 'rate: 1' with 308 zeros, and 'rate: ' with twenty times '9' and 288 zeros.
HighRatesLog ==
    <<"r","a","t","e",":"," ","1">> \o Repeat("0", 308)
        \o <<" ","r","a","t","e",":"," ">> \o Repeat("9", 20)
        \o Repeat("0", 288) \o <<"\n">>

\* A rate beyond the largest double: 'rate: 1' with 400 zeros after it.
HugeRateLog == <<"r","a","t","e",":"," ","1">> \o Repeat("0", 400) \o <<"\n">>

\* The fragments a file text of the parser-only specification is made of: the
\* three literals, the digits '0' and '7', the digit U+0663 (ARABIC-INDIC
\* DIGIT THREE), a dot and an exponent 'e3'.
Frags ==
    {<<"s","i","z","e","=">>, <<"e","l","a","p","s","e","d",":"," ">>,
     <<"r","a","t","e",":"," ">>, <<"0">>, <<"7">>, <<"U+0663">>, <<".">>,
     <<"e","3">>}

\* The file texts of the parser-only specification.
ParseTexts ==
    {Flatten(fr) : fr \in SeqsUpTo(Frags, MaxFrags)}
        \cup {ExampleLog, ScientificLog, LongSizeLog, LongZerosLog,
              CloseRatesLog, TinyRateLog, LowRatesLog, HighRatesLog,
              HugeRateLog}

\* What a file that exists can be: a text that decodes, or bytes that do not.
FileStates(texts) ==
    {[text |-> t, decodable |-> TRUE] : t \in texts}
        \cup {[text |-> <<>>, decodable |-> FALSE]}

\* The file systems over the names `names`: each file is absent or present.
FileSystems(names, texts) ==
    UNION {[D -> FileStates(texts)] : D \in SUBSET names}

(***************************************************************************)
(* The state.                                                              *)
(***************************************************************************)
VARIABLES
    fs,       \* the files on disk: name -> [text, decodable]; absent names are missing
    pc,       \* the statement to execute next ("L<line>"), "done" or "aborted"
    ns,       \* the module namespace: global name -> value, for the names bound so far
    call,     \* how many calls of parse_benchmark_log have begun
    frame,    \* the locals of the running call of parse_benchmark_log (<<>>: none)
    handles,  \* the file handles opened so far: [path, closed]
    console,  \* what print has written, one entry per call of print
    figure,   \* the pyplot figure
    shown,    \* whether plt.show() has opened the window
    error     \* the exception in flight or that ended the run ("none": none)

vars == <<fs, pc, ns, call, frame, handles, console, figure, shown, error>>

\* d with name bound to v.
Bind(d, name, v) ==
    [x \in DOMAIN d \cup {name} |-> IF x = name THEN v ELSE d[x]]

\* pyplot before plt.figure().
NoFigure ==
    [created |-> FALSE, lines |-> <<>>, xscale |-> "linear", yscale |-> "linear",
     xlabel |-> "", ylabel |-> "", title |-> "", grid |-> FALSE, legend |-> <<>>]

\* The state before the first statement of the script, over a file system.
Start(files) ==
    /\ fs = files
    /\ pc = "L21"
    /\ ns = <<>>
    /\ call = 0
    /\ frame = <<>>
    /\ handles = <<>>
    /\ console = <<>>
    /\ figure = NoFigure
    /\ shown = FALSE
    /\ error = "none"

\* The whole script, from its first statement, over every file system.
Init == \E files \in FileSystems({File1, File2}, ScriptTexts) : Start(files)

\* The parser alone: the state in which the script's first call enters it.
InitParse ==
    \E files \in FileSystems({File1}, ParseTexts) :
        /\ fs = files
        /\ pc = "L5"
        /\ ns = [file_path |-> File1]
        /\ call = 1
        /\ frame = [file_path |-> File1]
        /\ handles = <<>>
        /\ console = <<>>
        /\ figure = NoFigure
        /\ shown = FALSE
        /\ error = "none"

(***************************************************************************)
(* parse_benchmark_log (a.py lines 4-18).                                  *)
(***************************************************************************)
\* An exception leaves parse_benchmark_log and, unhandled, ends the script.
Raise(exc) ==
    /\ pc' = "aborted"
    /\ error' = exc
    /\ frame' = <<>>

\* Line 5: open(file_path, 'r').
Open ==
    /\ pc = "L5"
    /\ IF frame.file_path \in DOMAIN fs
       THEN /\ handles' = Append(handles, [path |-> frame.file_path, closed |-> FALSE])
            /\ pc' = "L6"
            /\ UNCHANGED <<frame, error>>
       ELSE /\ Raise("FileNotFoundError")
            /\ UNCHANGED handles
    /\ UNCHANGED <<fs, ns, call, console, figure, shown>>

\* Line 6: data = file.read().
Read ==
    /\ pc = "L6"
    /\ IF fs[frame.file_path].decodable
       THEN /\ frame' = Bind(frame, "data", fs[frame.file_path].text)
            /\ UNCHANGED error
       ELSE /\ error' = "UnicodeDecodeError"
            /\ UNCHANGED frame
    /\ pc' = "L5exit"
    /\ UNCHANGED <<fs, ns, call, handles, console, figure, shown>>

\* The mutant of CloseLast: the file is read without `with` and never closed.
LeaveOpen(hs) == hs

\* The handle opened last, closed.
CloseLast(hs) == [hs EXCEPT ![Len(hs)].closed = TRUE]

\* Lines 5-6: the end of the with block closes the file, whether the read
\* returned or raised; an exception of the read then leaves the function.
WithExit ==
    /\ pc = "L5exit"
    /\ handles' = CloseLast(handles)
    /\ IF error = "none"
       THEN /\ pc' = "L9"
            /\ UNCHANGED <<frame, error>>
       ELSE Raise(error)
    /\ UNCHANGED <<fs, ns, call, console, figure, shown>>

\* Line 9: sizes = re.findall(r'size=(\d+)', data).
FindSizes ==
    /\ pc = "L9"
    /\ frame' = Bind(frame, "sizes", FindAll(SizePrefix, Digits, frame.data))
    /\ pc' = "L10"
    /\ UNCHANGED <<fs, ns, call, handles, console, figure, shown, error>>

\* Line 10: elapsed = re.findall(r'elapsed: ([\d.]+)', data).
FindElapsed ==
    /\ pc = "L10"
    /\ frame' = Bind(frame, "elapsed", FindAll(ElapsedPrefix, DigitsDot, frame.data))
    /\ pc' = "L11"
    /\ UNCHANGED <<fs, ns, call, handles, console, figure, shown, error>>

\* Line 11: rate = re.findall(r'rate: ([\d.]+)', data).
FindRate ==
    /\ pc = "L11"
    /\ frame' = Bind(frame, "rate", FindAll(RatePrefix, DigitsDot, frame.data))
    /\ pc' = "L14"
    /\ UNCHANGED <<fs, ns, call, handles, console, figure, shown, error>>

\* Line 14: sizes = list(map(int, sizes)).
ConvSizes ==
    /\ pc = "L14"
    /\ IF \A k \in 1..Len(frame.sizes) : IsIntLiteral(frame.sizes[k])
       THEN /\ frame' = Bind(frame, "sizes", MapInt(frame.sizes))
            /\ pc' = "L15"
            /\ UNCHANGED error
       ELSE Raise("ValueError")
    /\ UNCHANGED <<fs, ns, call, handles, console, figure, shown>>

\* Line 15: elapsed = list(map(float, elapsed)).
ConvElapsed ==
    /\ pc = "L15"
    /\ IF \A k \in 1..Len(frame.elapsed) : IsFloatLiteral(frame.elapsed[k])
       THEN /\ frame' = Bind(frame, "elapsed", MapFloat(frame.elapsed))
            /\ pc' = "L16"
            /\ UNCHANGED error
       ELSE Raise("ValueError")
    /\ UNCHANGED <<fs, ns, call, handles, console, figure, shown>>

\* Line 16: rate = list(map(float, rate)).
ConvRate ==
    /\ pc = "L16"
    /\ IF \A k \in 1..Len(frame.rate) : IsFloatLiteral(frame.rate[k])
       THEN /\ frame' = Bind(frame, "rate", MapFloat(frame.rate))
            /\ pc' = "L18"
            /\ UNCHANGED error
       ELSE Raise("ValueError")
    /\ UNCHANGED <<fs, ns, call, handles, console, figure, shown>>

\* The mutant of Targets: line 36 written like line 24, so that the second
\* call's triple overwrites the first's.
TargetsFirst(c) == <<"sizes", "elapsed", "rate">>

\* The names the caller binds the returned triple to: line 24 for the first
\* call, line 36 for the second.
Targets(c) ==
    IF c = 1 THEN <<"sizes", "elapsed", "rate">>
    ELSE <<"sizes_column", "elapsed_column", "rate_column">>

\* Line 18: return sizes, elapsed, rate; the caller unpacks the triple.
Return ==
    /\ pc = "L18"
    /\ ns' = Bind(Bind(Bind(ns, Targets(call)[1], frame.sizes),
                       Targets(call)[2], frame.elapsed),
                  Targets(call)[3], frame.rate)
    /\ frame' = <<>>
    /\ pc' = IF call = 1 THEN "L27" ELSE "L40"
    /\ UNCHANGED <<fs, call, handles, console, figure, shown, error>>

\* The parser alone.
NextParse ==
    \/ Open \/ Read \/ WithExit
    \/ FindSizes \/ FindElapsed \/ FindRate
    \/ ConvSizes \/ ConvElapsed \/ ConvRate
    \/ Return

SpecParse == InitParse /\ [][NextParse]_vars

(***************************************************************************)
(* The script (a.py lines 21-52).                                          *)
(***************************************************************************)
\* Line 21: file_path = 'column-major1.txt'.
SetPath1 ==
    /\ pc = "L21"
    /\ ns' = Bind(ns, "file_path", File1)
    /\ pc' = "L24"
    /\ UNCHANGED <<fs, call, frame, handles, console, figure, shown, error>>

\* Line 24: the call parse_benchmark_log(file_path) enters the function.
Call1 ==
    /\ pc = "L24"
    /\ call' = call + 1
    /\ frame' = [file_path |-> ns.file_path]
    /\ pc' = "L5"
    /\ UNCHANGED <<fs, ns, handles, console, figure, shown, error>>

\* The mutant of PyPrint: the values go somewhere else than the console.
PyPrintNowhere(at, args, next) ==
    /\ pc = at
    /\ pc' = next
    /\ UNCHANGED <<fs, ns, call, frame, handles, console, figure, shown, error>>

\* print(*args): one entry of console output holding the values printed.
PyPrint(at, args, next) ==
    /\ pc = at
    /\ console' = Append(console, args)
    /\ pc' = next
    /\ UNCHANGED <<fs, ns, call, frame, handles, figure, shown, error>>

\* Line 27: print("Sizes:", sizes).
PrintSizes == PyPrint("L27", <<"Sizes:", ns.sizes>>, "L28")

\* Line 28: print("Elapsed:", elapsed).
PrintElapsed == PyPrint("L28", <<"Elapsed:", ns.elapsed>>, "L29")

\* Line 29: print("Rate:", rate).
PrintRate == PyPrint("L29", <<"Rate:", ns.rate>>, "L31")

\* Line 31: print(len(sizes)).
PrintLenSizes == PyPrint("L31", <<Len(ns.sizes)>>, "L32")

\* Line 32: print(len(elapsed)).
PrintLenElapsed == PyPrint("L32", <<Len(ns.elapsed)>>, "L33")

\* Line 33: print(len(rate)).
PrintLenRate == PyPrint("L33", <<Len(ns.rate)>>, "L35")

\* Line 35: file_path = 'column-major-1.txt'.
SetPath2 ==
    /\ pc = "L35"
    /\ ns' = Bind(ns, "file_path", File2)
    /\ pc' = "L36"
    /\ UNCHANGED <<fs, call, frame, handles, console, figure, shown, error>>

\* Line 36: the second call parse_benchmark_log(file_path) enters the function.
Call2 ==
    /\ pc = "L36"
    /\ call' = call + 1
    /\ frame' = [file_path |-> ns.file_path]
    /\ pc' = "L5"
    /\ UNCHANGED <<fs, ns, handles, console, figure, shown, error>>

\* Line 40: import matplotlib.pyplot as plt.
Import ==
    /\ pc = "L40"
    /\ pc' = "L42"
    /\ UNCHANGED <<fs, ns, call, frame, handles, console, figure, shown, error>>

\* Line 42: plt.figure(figsize=(10, 6)).
Figure ==
    /\ pc = "L42"
    /\ figure' = [figure EXCEPT !.created = TRUE]
    /\ pc' = "L43"
    /\ UNCHANGED <<fs, ns, call, frame, handles, console, shown, error>>

\* The mutant of PlotAccepts: plot draws whatever it is given, pairing the
\* points of the shorter sequence.
PlotAcceptsAny(x, y) == TRUE

\* Whether plt.plot(x, y) accepts its data: matplotlib raises ValueError
\* ("x and y must have same first dimension") when the lengths differ.
PlotAccepts(x, y) == Len(x) = Len(y)

\* plt.plot(x, y, marker='o', linestyle=..., color=...): one more line.
Plot(at, x, y, linestyle, color, next) ==
    /\ pc = at
    /\ IF PlotAccepts(x, y)
       THEN /\ figure' = [figure EXCEPT !.lines =
                            Append(@, [x |-> x, y |-> y, linestyle |-> linestyle,
                                       color |-> color])]
            /\ pc' = next
            /\ UNCHANGED <<frame, error>>
       ELSE /\ Raise("ValueError")
            /\ UNCHANGED figure
    /\ UNCHANGED <<fs, ns, call, handles, console, shown>>

\* Line 43: plt.plot(sizes, rate, marker='o', linestyle='-', color='red').
Plot1 == Plot("L43", ns.sizes, ns.rate, "-", "red", "L44")

\* Line 44: plt.plot(sizes_column, rate_column, ..., linestyle='dashed', color='green').
Plot2 == Plot("L44", ns.sizes_column, ns.rate_column, "dashed", "green", "L45")

\* A pyplot call that only decorates the figure.
Decorate(at, fig, next) ==
    /\ pc = at
    /\ figure' = fig
    /\ pc' = next
    /\ UNCHANGED <<fs, ns, call, frame, handles, console, shown, error>>

\* Line 45: plt.xscale('log').
XScale == Decorate("L45", [figure EXCEPT !.xscale = "log"], "L46")

\* Line 46: plt.yscale('log').
YScale == Decorate("L46", [figure EXCEPT !.yscale = "log"], "L47")

\* Line 47: plt.xlabel('Size (log scale)').
XLabel == Decorate("L47", [figure EXCEPT !.xlabel = "Size (log scale)"], "L48")

\* Line 48: plt.ylabel('Rate (log scale)').
YLabel == Decorate("L48", [figure EXCEPT !.ylabel = "Rate (log scale)"], "L49")

\* Line 49: plt.title('Rate vs. Size on a Log-Log Scale').
Title ==
    Decorate("L49", [figure EXCEPT !.title = "Rate vs. Size on a Log-Log Scale"], "L50")

\* Line 50: plt.grid(True, which="major", ls="--").
Grid == Decorate("L50", [figure EXCEPT !.grid = TRUE], "L51")

\* Line 51: plt.legend(['row-major optimized', 'column-major optimized']).
Legend ==
    Decorate("L51",
             [figure EXCEPT !.legend = <<"row-major optimized", "column-major optimized">>],
             "L52")

\* Line 52: plt.show() opens the plot window; the script ends after it.
Show ==
    /\ pc = "L52"
    /\ shown' = TRUE
    /\ pc' = "done"
    /\ UNCHANGED <<fs, ns, call, frame, handles, console, figure, error>>

\* The whole script.
Next ==
    \/ SetPath1 \/ Call1
    \/ Open \/ Read \/ WithExit
    \/ FindSizes \/ FindElapsed \/ FindRate
    \/ ConvSizes \/ ConvElapsed \/ ConvRate
    \/ Return
    \/ PrintSizes \/ PrintElapsed \/ PrintRate
    \/ PrintLenSizes \/ PrintLenElapsed \/ PrintLenRate
    \/ SetPath2 \/ Call2
    \/ Import \/ Figure \/ Plot1 \/ Plot2
    \/ XScale \/ YScale \/ XLabel \/ YLabel \/ Title \/ Grid \/ Legend
    \/ Show

Spec == Init /\ [][Next]_vars

(***************************************************************************)
(* What the properties below speak of, stated without the parser's own     *)
(* operators: the tokens of a text, and the numbers they denote.           *)
(***************************************************************************)
\* The token heads as the specification writes them.
SizeToken == <<"s","i","z","e","=">>
ElapsedToken == <<"e","l","a","p","s","e","d",":"," ">>
RateToken == <<"r","a","t","e",":"," ">>

\* The positions of `data` where `lit` stands with a class character after it.
TokenStarts(lit, class, data) ==
    {i \in 1..Len(data) :
        /\ i + Len(lit) <= Len(data)
        /\ SubSeq(data, i, i + Len(lit) - 1) = lit
        /\ data[i + Len(lit)] \in class}

\* The text of the token at position i: the class characters after the literal,
\* up to the first character that is not of the class.
TokenText(lit, class, data, i) ==
    LET from == i + Len(lit)
        to == CHOOSE j \in from..Len(data) :
                  /\ j = Len(data) \/ data[j + 1] \notin class
                  /\ \A k \in from..j : data[k] \in class
    IN  SubSeq(data, from, to)

\* A finite set of numbers in ascending order.
RECURSIVE Ascending(_)
Ascending(S) ==
    IF S = {} THEN <<>>
    ELSE LET least == CHOOSE x \in S : \A y \in S : x <= y
         IN  <<least>> \o Ascending(S \ {least})

\* The texts of the tokens of `data`, in order of appearance.
Tokens(lit, class, data) ==
    LET at == Ascending(TokenStarts(lit, class, data))
    IN  [k \in 1..Len(at) |-> TokenText(lit, class, data, at[k])]

\* 10^n.
RECURSIVE Pow10(_)
Pow10(n) == IF n = 0 THEN 1 ELSE 10 * Pow10(n - 1)

\* The number a string of digits denotes in base ten: each digit weighs the
\* power of ten of its place.
RECURSIVE Base10(_)
Base10(s) ==
    IF s = <<>> THEN 0
    ELSE DigitVal(Head(s)) * Pow10(Len(s) - 1) + Base10(Tail(s))

\* How many dots and how many digits a text holds.
Dots(s) == Cardinality({k \in 1..Len(s) : s[k] = "."})
DigitCount(s) == Cardinality({k \in 1..Len(s) : s[k] \in Digits})

\* Whether a text of digits and dots writes a number: at most one dot, and a digit.
WritesNumber(s) == Dots(s) <= 1 /\ DigitCount(s) >= 1

\* The digits of a text as numbers, the dot left out.
DigitsOf(s) ==
    LET ds == SelectSeq(s, LAMBDA c : c \in Digits)
    IN  [k \in 1..Len(ds) |-> DigitVal(ds[k])]

\* The floats 0.0 and inf.
Zero == [kind |-> "dec", d |-> <<>>, x |-> 0]
Infinity == [kind |-> "inf", d |-> <<>>, x |-> 0]

\* The decimal a text of digits and at most one dot writes: its digits from
\* the first to the last that is not zero, and the power of ten that last
\* digit weighs.
DecimalOf(s) ==
    LET ds == DigitsOf(s)
        after == IF Dots(s) = 0 THEN 0
                 ELSE Len(s) - (CHOOSE k \in 1..Len(s) : s[k] = ".")
        nz == {k \in 1..Len(ds) : ds[k] # 0}
        first == CHOOSE k \in nz : \A h \in nz : k <= h
        last == CHOOSE k \in nz : \A h \in nz : h <= k
    IN  IF nz = {} THEN Zero
        ELSE [kind |-> "dec", d |-> SubSeq(ds, first, last),
              x |-> Len(ds) - last - after]

\* Whether a decimal is a float as it stands: zero, or of at most 15
\* significant digits and between 10^-307 and 10^308, where a decimal and the
\* double nearest to it determine each other.
Exact(v) ==
    \/ v = Zero
    \/ /\ Len(v.d) <= 15
       /\ v.x + Len(v.d) - 1 >= -307
       /\ v.x + Len(v.d) - 1 < 308

\* The text of the first log file, when it exists and decodes.
Readable(f) == f \in DOMAIN fs /\ fs[f].decodable
Text(f) == fs[f].text

\* Whether the first, the second call has returned its triple to the script.
Returned1 == "sizes" \in DOMAIN ns
Returned2 == "sizes_column" \in DOMAIN ns

\* The sizes, elapsed times and rates the tokens of a text denote.
SizesOf(data) ==
    LET t == Tokens(SizeToken, Digits, data) IN [k \in 1..Len(t) |-> Base10(t[k])]
ElapsedOf(data) ==
    LET t == Tokens(ElapsedToken, DigitsDot, data) IN [k \in 1..Len(t) |-> DecimalOf(t[k])]
RateOf(data) ==
    LET t == Tokens(RateToken, DigitsDot, data) IN [k \in 1..Len(t) |-> DecimalOf(t[k])]

\* Whether every token of a text converts: no size token is longer than
\* int() converts, and every elapsed and rate token writes a number.
AllNumbers(data) ==
    /\ \A i \in TokenStarts(SizeToken, Digits, data) :
           Len(TokenText(SizeToken, Digits, data, i)) <= 4300
    /\ \A i \in TokenStarts(ElapsedToken, DigitsDot, data) :
           WritesNumber(TokenText(ElapsedToken, DigitsDot, data, i))
    /\ \A i \in TokenStarts(RateToken, DigitsDot, data) :
           WritesNumber(TokenText(RateToken, DigitsDot, data, i))

\* The floats `vals` are those the decimals `decs` convert to, one for one:
\* a decimal that is a float as it stands converts to itself.
Converted(vals, decs) ==
    /\ Len(vals) = Len(decs)
    /\ \A k \in 1..Len(decs) : Exact(decs[k]) => vals[k] = decs[k]

\* The triple the first call returned is the one the tokens of its file denote.
ReturnsTokens ==
    /\ ns.sizes = SizesOf(Text(File1))
    /\ Converted(ns.elapsed, ElapsedOf(Text(File1)))
    /\ Converted(ns.rate, RateOf(Text(File1)))

\* The worked example: the two-line log yields [10,20], [1.5,3.0], [6.7,6.6].
ReturnsExample ==
    Text(File1) = ExampleLog =>
        /\ ns.sizes = <<10, 20>>
        /\ ns.elapsed = <<[kind |-> "dec", d |-> <<1, 5>>, x |-> -1],
                          [kind |-> "dec", d |-> <<3>>, x |-> 0]>>
        /\ ns.rate = <<[kind |-> "dec", d |-> <<6, 7>>, x |-> -1],
                       [kind |-> "dec", d |-> <<6, 6>>, x |-> -1]>>

\* Decimals that are no floats as they stand convert to the nearest double:
\* 0.10000000000000000001 to the double of 0.1, 10^-324 to 0.0, 10^400 to inf,
\* 9.9999999999999999999 * 10^-308 to the double of 10^-307 and
\* 9.9999999999999999999 * 10^307 to the double of 10^308.
ReturnsNearest ==
    /\ Text(File1) = LowRatesLog =>
           /\ ns.rate[1] = ns.rate[2]
           /\ ns.rate[1] = [kind |-> "dec", d |-> <<1>>, x |-> -307]
    /\ Text(File1) = HighRatesLog =>
           /\ ns.rate[1] = ns.rate[2]
           /\ ns.rate[1] \notin {Zero, Infinity}
    /\ Text(File1) = CloseRatesLog =>
           /\ ns.rate[1] = ns.rate[2]
           /\ ns.rate[2] = [kind |-> "dec", d |-> <<1>>, x |-> -1]
    /\ Text(File1) = TinyRateLog => ns.rate = <<Zero, Zero>>
    /\ Text(File1) = HugeRateLog => ns.rate = <<Infinity>>

(***************************************************************************)
(* C1.  As claimed: for every file text, parse_benchmark_log returns three *)
(* sequences, each the list of all matches of its own pattern in order of  *)
(* appearance, converted to numbers (so each length is the match count of  *)
(* its own pattern); the two-line example yields [10,20], [1.5,3.0],       *)
(* [6.7,6.6].  The original statement, which a text such as 'elapsed: .'   *)
(* refutes: the call on a readable file never fails.                       *)
(***************************************************************************)
C1_Original ==
    Readable(File1) =>
        /\ pc # "aborted"
        /\ pc = "L27" => ReturnsTokens /\ ReturnsExample

\* C1, amended: for every file text whose size tokens have at most 4300 digits
\* each and whose elapsed and rate tokens all write a number,
\* parse_benchmark_log does not fail and returns three sequences, each the
\* list of all matches of its own pattern in order of appearance, converted
\* to numbers (a float being the double nearest to the decimal written); the
\* two-line example yields [10,20], [1.5,3.0], [6.7,6.6].  On any other
\* readable text the call fails with ValueError and returns nothing.
C1_ReturnsAllMatches ==
    /\ Readable(File1) /\ AllNumbers(Text(File1)) => pc # "aborted"
    /\ Readable(File1) /\ ~AllNumbers(Text(File1)) =>
           /\ pc # "L27"
           /\ pc = "aborted" => error = "ValueError" /\ ~Returned1
    /\ pc = "L27" => ReturnsTokens /\ ReturnsExample /\ ReturnsNearest

C1_Witness ==
    /\ pc = "L27"
    /\ Text(File1) = ExampleLog
    /\ ns.sizes = <<10, 20>>
    /\ Len(ns.elapsed) = 2 /\ Len(ns.rate) = 2

(***************************************************************************)
(* C2.  As claimed: every 'rate: ' token written in scientific form        *)
(* ('rate: 1.5e3') or in plain decimal form ('rate: 6.7') yields in the    *)
(* rate sequence the number equal to the full written value (1500, 6.7),   *)
(* not a truncated prefix of it.                                           *)
(***************************************************************************)
\* The exponent written right after the rate token at position i: the digits
\* after an 'e' that follows the mantissa at once (none: <<>>).
ExponentText(data, i) ==
    LET e == i + Len(RateToken) + Len(TokenText(RateToken, DigitsDot, data, i))
    IN  IF e + 1 <= Len(data) /\ data[e] = "e" /\ data[e + 1] \in Digits
        THEN TokenText(<<"e">>, Digits, data, e)
        ELSE <<>>

\* The decimal d scaled by 10^x.
Scaled(d, x) == IF d = Zero THEN d ELSE [d EXCEPT !.x = @ + x]

\* The values the rate tokens of a text write in full, exponent included.
WrittenRates(data) ==
    LET at == Ascending(TokenStarts(RateToken, DigitsDot, data))
    IN  [k \in 1..Len(at) |->
            Scaled(DecimalOf(TokenText(RateToken, DigitsDot, data, at[k])),
                   Base10(ExponentText(data, at[k])))]

C2_FullWrittenValue ==
    pc = "L27" => ns.rate = WrittenRates(Text(File1))

(***************************************************************************)
(* C5.  For a file that holds a size token but no elapsed and no rate      *)
(* token that matches its pattern, the three returned sequences do not all *)
(* have the same length.                                                   *)
(***************************************************************************)
OnlySizeTokens(data) ==
    /\ TokenStarts(SizeToken, Digits, data) # {}
    /\ TokenStarts(ElapsedToken, DigitsDot, data) = {}
    /\ TokenStarts(RateToken, DigitsDot, data) = {}

C5_UnequalLengths ==
    pc = "L27" /\ OnlySizeTokens(Text(File1)) =>
        ~(Len(ns.sizes) = Len(ns.elapsed) /\ Len(ns.elapsed) = Len(ns.rate))

C5_Witness ==
    /\ pc = "L27"
    /\ OnlySizeTokens(Text(File1))
    /\ Len(ns.sizes) = 2 /\ Len(ns.elapsed) = 0 /\ Len(ns.rate) = 0

(***************************************************************************)
(* C6.  As claimed: a size value written with leading zeros parses to the  *)
(* integer it denotes in base ten ('size=007' yields 7), for every digit   *)
(* string the size pattern matches.  The size 7 written behind 4300 zeros  *)
(* refutes it: the call fails instead of returning 7.                      *)
(***************************************************************************)
\* The sizes returned are the integers the size tokens denote in base ten.
SizesDenoted ==
    LET t == Tokens(SizeToken, Digits, Text(File1))
    IN  /\ Len(ns.sizes) = Len(t)
        /\ \A k \in 1..Len(t) :
               /\ ns.sizes[k] = Base10(t[k])
               /\ t[k] = <<"0","0","7">> => ns.sizes[k] = 7

\* The elapsed and rate tokens of a text all write a number.
FloatsWritten(data) ==
    /\ \A i \in TokenStarts(ElapsedToken, DigitsDot, data) :
           WritesNumber(TokenText(ElapsedToken, DigitsDot, data, i))
    /\ \A i \in TokenStarts(RateToken, DigitsDot, data) :
           WritesNumber(TokenText(RateToken, DigitsDot, data, i))

C6_Original ==
    /\ Readable(File1) /\ FloatsWritten(Text(File1)) => pc # "aborted"
    /\ pc = "L27" => SizesDenoted

\* C6, amended: a size value written with leading zeros parses to the integer
\* it denotes in base ten ('size=007' yields 7), for every digit string of at
\* most 4300 digits, leading zeros counted, that the size pattern matches; a
\* longer one makes the call fail with ValueError.
C6_LeadingZeros ==
    /\ pc = "L27" => SizesDenoted
    /\ Readable(File1) /\ FloatsWritten(Text(File1)) /\ pc = "aborted" =>
           /\ error = "ValueError"
           /\ \E i \in TokenStarts(SizeToken, Digits, Text(File1)) :
                  Len(TokenText(SizeToken, Digits, Text(File1), i)) > 4300
    /\ pc = "L27" =>
           \A i \in TokenStarts(SizeToken, Digits, Text(File1)) :
               Len(TokenText(SizeToken, Digits, Text(File1), i)) <= 4300

C6_Witness ==
    /\ pc = "L27"
    /\ \E k \in 1..Len(ns.sizes) :
           /\ Tokens(SizeToken, Digits, Text(File1))[k] = <<"0","0","7">>
           /\ ns.sizes[k] = 7

(***************************************************************************)
(* C8.  For an empty file, parse_benchmark_log returns three empty         *)
(* sequences without failing.                                              *)
(***************************************************************************)
C8_EmptyFile ==
    Readable(File1) /\ Text(File1) = <<>> =>
        /\ pc # "aborted"
        /\ pc = "L27" \/ ENABLED NextParse
        /\ pc = "L27" => ns.sizes = <<>> /\ ns.elapsed = <<>> /\ ns.rate = <<>>

C8_Witness ==
    /\ pc = "L27"
    /\ Readable(File1) /\ Text(File1) = <<>>
    /\ ns.sizes = <<>> /\ ns.elapsed = <<>> /\ ns.rate = <<>>

(***************************************************************************)
(* The properties of the whole script.                                     *)
(***************************************************************************)
\* The statements after line 43, after line 44: the run got past that plot.
PastPlot1 ==
    {"L44", "L45", "L46", "L47", "L48", "L49", "L50", "L51", "L52", "done"}
PastPlot2 == PastPlot1 \ {"L44"}

(***************************************************************************)
(* C3.  As claimed: if the numbers of size, elapsed and rate matches found *)
(* in a log file are not all equal (also when only the elapsed count       *)
(* differs), the script terminates with an unhandled runtime failure and   *)
(* the plot window is never shown.                                         *)
(***************************************************************************)
\* The counts of the triple bound to the names a, b, c are not all equal.
CountsDiffer(a, b, c) == ~(Len(ns[a]) = Len(ns[b]) /\ Len(ns[b]) = Len(ns[c]))

C3_Original ==
    \/ Returned1 /\ CountsDiffer("sizes", "elapsed", "rate")
    \/ Returned2 /\ CountsDiffer("sizes_column", "elapsed_column", "rate_column")
    => ~shown /\ pc # "done"

\* C3, amended: if the numbers of size and rate matches found in a log file
\* are not equal, the script terminates with an unhandled runtime failure (at
\* the latest in the plt.plot call that draws that file) and the plot window is
\* never shown; a difference of the elapsed count alone fails nothing.
C3_SizeRateMismatchFails ==
    /\ Returned1 /\ Len(ns.sizes) # Len(ns.rate) =>
           /\ ~shown /\ pc \notin PastPlot1
           /\ pc = "L43" => ENABLED Plot1
    /\ Returned2 /\ Len(ns.sizes_column) # Len(ns.rate_column) =>
           /\ ~shown /\ pc \notin PastPlot2
           /\ pc = "L44" => ENABLED Plot2

C3_Witness ==
    /\ pc = "aborted" /\ error = "ValueError"
    /\ Returned2 /\ figure.created
    /\ Len(figure.lines) = 1
    /\ Len(ns.sizes_column) # Len(ns.rate_column)
    /\ ~shown

(***************************************************************************)
(* C4.  Any failure while parsing either log file (the file is missing or  *)
(* unreadable, or a captured elapsed or rate text such as '1.2.3' or '.'   *)
(* is no number) aborts the whole run at that point: the call returns no   *)
(* sequences at all, no later step executes, and the plot window is never  *)
(* opened.                                                                 *)
(***************************************************************************)
\* The file read by call c, and why parsing it must fail.
FileOf(c) == IF c = 1 THEN File1 ELSE File2
Unparsable(f) == ~Readable(f) \/ ~AllNumbers(Text(f))

\* No name of Targets(c) is bound: call c has returned nothing.
NothingReturned(c) == \A k \in 1..3 : Targets(c)[k] \notin DOMAIN ns

\* What the script has done by the time call c begins, and nothing more.
OnlyBefore(c) ==
    /\ figure = NoFigure /\ ~shown
    /\ Len(handles) <= c
    /\ c = 1 => console = <<>> /\ NothingReturned(2)

\* Where the script stands while call c runs, and right after it has returned.
InCall == {"L5", "L6", "L5exit", "L9", "L10", "L11", "L14", "L15", "L16", "L18"}
AfterCall(c) == IF c = 1 THEN "L27" ELSE "L40"

C4_ParseFailureAborts ==
    \A c \in 1..2 :
        \* a call returns only if its file could be parsed,
        /\ pc = AfterCall(c) => ~Unparsable(FileOf(c))
        \* until it has returned the script is inside it or has aborted,
        /\ call >= c /\ NothingReturned(c) =>
               /\ call = c /\ OnlyBefore(c)
               /\ pc \in InCall \cup {"aborted"}
        \* and a call that failed has left nothing behind and nothing to run.
        /\ call = c /\ pc = "aborted" /\ ~figure.created =>
               /\ NothingReturned(c) /\ OnlyBefore(c)
               /\ frame = <<>>
               /\ ~ENABLED Next

C4_Witness ==
    /\ pc = "aborted" /\ error = "ValueError"
    /\ call = 2 /\ Returned1 /\ NothingReturned(2)
    /\ LineBadElapsed = Text(File2)
    /\ figure = NoFigure /\ ~shown

(***************************************************************************)
(* C7.  Calling parse_benchmark_log twice on the same unchanged text       *)
(* yields identical triples: the function keeps no state between calls,    *)
(* and the second call is unaffected by the first and leaves the first     *)
(* call's returned sequences unchanged.                                    *)
(***************************************************************************)
\* The triple of the first call as the script printed it right after the call.
PrintedTriple == <<console[1][2], console[2][2], console[3][2]>>

\* The second call has returned: the script is past line 36.
PastCall2 ==
    call = 2 /\ (pc \in {"L40", "L42", "L43"} \cup PastPlot1
                    \/ (pc = "aborted" /\ figure.created))

C7_SameTextSameTriple ==
    /\ pc \in {"L24", "L36"} => frame = <<>>
    /\ pc = "L5" => DOMAIN frame = {"file_path"} /\ frame.file_path = FileOf(call)
    /\ PastCall2 =>
           /\ <<ns.sizes, ns.elapsed, ns.rate>> = PrintedTriple
           /\ Returned2
           /\ Text(File1) = Text(File2) =>
                  <<ns.sizes_column, ns.elapsed_column, ns.rate_column>>
                      = <<ns.sizes, ns.elapsed, ns.rate>>
           /\ pc = "L40" =>
                  <<ns.sizes_column, ns.elapsed_column, ns.rate_column>>
                      = <<SizesOf(Text(File2)), ElapsedOf(Text(File2)), RateOf(Text(File2))>>

C7_Witness ==
    /\ PastCall2 /\ Returned2
    /\ Text(File1) = Text(File2)
    /\ Len(ns.sizes) = 2 /\ Len(ns.elapsed) = 1 /\ Len(ns.rate) = 1
    /\ <<ns.sizes_column, ns.elapsed_column, ns.rate_column>>
           = <<ns.sizes, ns.elapsed, ns.rate>>

(***************************************************************************)
(* C9.  In every reachable state at most one log-file handle is open; each *)
(* handle is closed as soon as its read finishes or fails, before any      *)
(* pattern matching, conversion, printing or plotting; and when the plot   *)
(* window is opened both handles have been opened and closed.              *)
(***************************************************************************)
OpenHandles == {k \in 1..Len(handles) : ~handles[k].closed}

C9_HandlesClosed ==
    /\ Cardinality(OpenHandles) <= 1
    /\ OpenHandles # {} => pc \in {"L6", "L5exit"} /\ OpenHandles = {call}
    /\ shown =>
           handles = <<[path |-> File1, closed |-> TRUE],
                       [path |-> File2, closed |-> TRUE]>>

C9_Witness ==
    /\ shown
    /\ Len(handles) = 2
    /\ OpenHandles = {}

(***************************************************************************)
(* C10.  The console output consists only of the first file's three        *)
(* sequences followed by their three lengths, all emitted after the first  *)
(* file has been parsed and before the second file is opened; nothing is   *)
(* printed for the second file, so a run that fails while parsing the      *)
(* second file has already emitted the complete console output and never   *)
(* opens the plot window.                                                  *)
(***************************************************************************)
\* The six entries the script prints for the first file.
FullOutput ==
    << <<"Sizes:", ns.sizes>>, <<"Elapsed:", ns.elapsed>>, <<"Rate:", ns.rate>>,
       <<Len(ns.sizes)>>, <<Len(ns.elapsed)>>, <<Len(ns.rate)>> >>

C10_ConsoleOutput ==
    /\ console # <<>> =>
           /\ Returned1
           /\ Len(console) <= 6
           /\ console = SubSeq(FullOutput, 1, Len(console))
    /\ Len(console) < 6 => call <= 1 /\ Len(handles) <= 1 /\ ~figure.created
    /\ call = 2 => console = FullOutput
    /\ call = 2 /\ pc = "aborted" /\ ~Returned2 => console = FullOutput /\ ~shown

C10_Witness ==
    /\ pc = "aborted"
    /\ call = 2 /\ ~Returned2
    /\ console = FullOutput
    /\ Len(ns.sizes) = 2
    /\ ~shown

=============================================================================
